---- MODULE Spec2Model ----
(***************************************************************************)
(* A model of the esm-logging hierarchy and dispatch engine                *)
(* (src/src/logging/index.ts; src/src/logger.ts is the variant whose       *)
(* Logger constructor takes the Manager).                                  *)
(*                                                                         *)
(* Strings that the code inspects character by character (scopes) are      *)
(* sequences of one-character strings; level names are plain strings.      *)
(* Objects live in heaps: `logger` is the heap of Logger objects (index 1  *)
(* is ROOT), handlers are named by the strings of DOMAIN hdlr.             *)
(***************************************************************************)
EXTENDS Integers, Sequences, FiniteSets, TLC

\* ------------------------------------------------------------------ bounds

\* Logger objects the heap may hold, ROOT included.
MaxLoggers == 3

\* Longest handler array (holes included) a logger may grow to.
MaxHandlers == 2

\* Longest scope string given to Filter / LogRecord in FilterSpec.
MaxScopeLen == 5

\* Longest filter list a logger may grow to.
MaxFilters == 2

\* Loggers, ROOT included, of the parent chains in ChainSpec.
MaxChain == 3

\* Most keys of an extra map given to makeRecord.
MaxExtraKeys == 3

\* Nested calls the engine's stack holds before it throws a RangeError.
MaxStack == 4

\* ------------------------------------------------------------------ levels

CRITICAL == 50
ERROR == 40
WARNING == 30
INFO == 20
DEBUG == 10
NOTSET == 0

\* The alias constants.
FATAL == CRITICAL
WARN == WARNING

\* A level argument as the code sees it at run time: a number, a string, or
\* a value that is neither (typeof tells them apart).
Num(n) == [t |-> "number", n |-> n, s |-> ""]
Str(s) == [t |-> "string", n |-> 0, s |-> s]
Other == [t |-> "other", n |-> 0, s |-> ""]

\* ------------------------------------------------------------------ scopes

S_empty == << >>
S_a == <<"a">>
S_ab == <<"a", ".", "b">>
S_abc == <<"a", ".", "b", ".", "c">>

\* A scope argument of Manager.getLogger: str is (typeof scope == 'string');
\* s is the string, or the property key a non-string argument converts to.
StringScope(s) == [str |-> TRUE, s |-> s]
NonStringScope == [str |-> FALSE, s |-> <<"7">>]

\* ------------------------------------------------------------------ handlers

\* The handler objects the application has constructed.  D1 is an instance
\* of an application subclass that implements emit, constructed with the
\* default threshold NOTSET; D2 is a StderrHandler(ERROR), which inherits
\* Handler.emit; DEFAULT_LAST_RESORT is a StderrHandler(WARNING), which
\* inherits it too.  emit is what a call of emit does: return ("ok") or
\* throw the named error.
hdlr ==
    [D1 |-> [level |-> NOTSET, emit |-> "ok"],
     D2 |-> [level |-> ERROR, emit |-> "NotImplementedError"],
     DEFAULT_LAST_RESORT |-> [level |-> WARNING, emit |-> "NotImplementedError"]]

DEFAULT_LAST_RESORT == "DEFAULT_LAST_RESORT"

\* null as a Handler reference.
NullHandler == "null"

\* The handlers an application attaches to loggers.
Attachable == {"D1", "D2"}

\* What `delete this.handlers[i]` leaves in the array.
Hole == "empty"

throwErrors == TRUE

\* ------------------------------------------------------------------ state

VARIABLES
    logger,                   \* heap of Logger objects; logger[1] is ROOT
    loggers,                  \* Manager.loggers: property key -> Logger id
    disable,                  \* Manager._disable
    emittedNoHandlerWarning,  \* Manager.emittedNoHandlerWarning
    LEVELTONAME,              \* property key of a number -> name
    NAMETOLEVEL,              \* property key (a name) -> number
    lastResort,               \* the module's lastResort binding
    _loggerClass,             \* Manager._loggerClass
    out                       \* what the last operation returned / did

vars == <<logger, loggers, disable, emittedNoHandlerWarning,
          LEVELTONAME, NAMETOLEVEL, lastResort, _loggerClass, out>>

ROOT == 1

\* null / undefined as a Logger reference.
Null == 0

\* null as the value of Manager._loggerClass.
NullClass == "null"

\* The module variable loggerClass: the class getLogger instantiates while
\* the Manager has none of its own.
loggerClass == "Logger"

\* A Logger constructor that makes every new logger a child of ROOT, the
\* root itself included.
NewLoggerObject_childOfRoot(scope, level, m) ==
    [scope |-> scope, level |-> level, manager |-> m, parent |-> ROOT,
     propagate |-> TRUE, disabled |-> FALSE, handlers |-> << >>,
     cache |-> << >>, filters |-> << >>, class |-> "Logger"]

\* Logger constructor: fields as initialised by the class body and the
\* constructor; m is whether a Manager was passed (logger.ts) or not.
NewLoggerObject(scope, level, m) ==
    [scope |-> scope, level |-> level, manager |-> m, parent |-> Null,
     propagate |-> TRUE, disabled |-> FALSE, handlers |-> << >>,
     cache |-> << >>, filters |-> << >>, class |-> "Logger"]

\* A LogRecord, as far as filters and dispatch read it; NullRecord is null.
LogRecord(scope, levelno) == [isNull |-> FALSE, scope |-> scope, levelno |-> levelno]

NullRecord == [isNull |-> TRUE, scope |-> << >>, levelno |-> 0]

\* options.extra: null, or the keys of the map in the order of its entries.
NullExtra == [isNull |-> TRUE, keys |-> << >>]

Extra(keys) == [isNull |-> FALSE, keys |-> keys]

\* A BasicConfigOptions object: handlers is the list given, [] when the
\* member is absent; filename and stream are whether a (truthy) value was
\* given; filemode is the string given, "" when the member is absent;
\* hasLevel is whether level is present.
Options(handlers, filename, stream, filemode, hasLevel, level, force) ==
    [handlers |-> handlers, filename |-> filename,
     stream |-> stream, filemode |-> filemode, hasLevel |-> hasLevel,
     level |-> level, force |-> force]

\* The options object {}.
NoOptions == Options(<< >>, FALSE, FALSE, "", FALSE, Other, FALSE)

\* The observation record of an operation that returned nothing.
NoOut ==
    [op |-> "none", lg |-> Null, lvl |-> 0, key |-> << >>, rscope |-> << >>,
     ret |-> 0, thrown |-> "none", invoked |-> << >>, lastResort |-> 0,
     diag |-> FALSE, arg |-> Other, name |-> "", record |-> NullRecord,
     called |-> << >>, extra |-> NullExtra, filters |-> << >>,
     emitted |-> << >>, depth |-> 0, options |-> NoOptions]

\* A RootLogger whose constructor passes the level on as NOTSET.
RootLogger_notset == NewLoggerObject(<<"r", "o", "o", "t">>, NOTSET, FALSE)

\* ROOT as constructed at module load: new RootLogger(WARNING).
RootLogger == NewLoggerObject(<<"r", "o", "o", "t">>, WARNING, FALSE)

\* The state at module load, with heap `lg` and Manager.loggers `reg`.
Loaded(lg, reg) ==
    /\ logger = lg
    /\ loggers = reg
    /\ disable = 0
    /\ emittedNoHandlerWarning = FALSE
    /\ LEVELTONAME = [k \in {ToString(n) : n \in {CRITICAL, ERROR, WARNING, INFO, DEBUG, NOTSET}} |->
            CASE k = ToString(CRITICAL) -> "CRITICAL"
              [] k = ToString(ERROR) -> "ERROR"
              [] k = ToString(WARNING) -> "WARNING"
              [] k = ToString(INFO) -> "INFO"
              [] k = ToString(DEBUG) -> "DEBUG"
              [] k = ToString(NOTSET) -> "NOTSET"]
    /\ NAMETOLEVEL = [s \in {"CRITICAL", "ERROR", "WARNING", "INFO", "DEBUG", "NOTSET"} |->
            CASE s = "CRITICAL" -> CRITICAL
              [] s = "ERROR" -> ERROR
              [] s = "WARNING" -> WARNING
              [] s = "INFO" -> INFO
              [] s = "DEBUG" -> DEBUG
              [] s = "NOTSET" -> NOTSET]
    /\ lastResort = DEFAULT_LAST_RESORT
    /\ _loggerClass = NullClass
    /\ out = NoOut

Init == Loaded(<< RootLogger >>, << >>)

\* ------------------------------------------------------------------ checkLevel

\* checkLevel without its final else branch: a value that is neither a
\* number nor a string falls through.
checkLevel_noTypeError(level) ==
    IF level.t = "number" THEN [ok |-> TRUE, v |-> level.n, err |-> "none"]
    ELSE IF level.t = "string" THEN
        IF level.s \notin DOMAIN NAMETOLEVEL
        THEN [ok |-> FALSE, v |-> 0, err |-> "Unknown level"]
        ELSE [ok |-> TRUE, v |-> NAMETOLEVEL[level.s], err |-> "none"]
    ELSE [ok |-> TRUE, v |-> 0, err |-> "none"]

\* checkLevel: [ok, v, err]; ok = FALSE is a thrown Error.
checkLevel(level) ==
    IF level.t = "number" THEN [ok |-> TRUE, v |-> level.n, err |-> "none"]
    ELSE IF level.t = "string" THEN
        IF level.s \notin DOMAIN NAMETOLEVEL
        THEN [ok |-> FALSE, v |-> 0, err |-> "Unknown level"]
        ELSE [ok |-> TRUE, v |-> NAMETOLEVEL[level.s], err |-> "none"]
    ELSE [ok |-> FALSE, v |-> 0, err |-> "Level not a number or valid string"]

\* checkLevel(level) called on its own (log-level.ts exports it).
CheckLevel(level) ==
    /\ out' = [NoOut EXCEPT !.op = "checkLevel", !.arg = level,
                            !.ret = checkLevel(level).v,
                            !.thrown = checkLevel(level).err]
    /\ UNCHANGED <<logger, loggers, disable, emittedNoHandlerWarning, LEVELTONAME, NAMETOLEVEL, lastResort, _loggerClass>>

\* ------------------------------------------------------------------ level registry

\* The property key `obj[level]` uses: a number is converted to its decimal
\* string, a string is the key itself.
PropertyKey(level) == IF level.t = "number" THEN ToString(level.n) ELSE level.s

\* Property names every object literal inherits from Object.prototype; a
\* lookup of one that is not an own property yields a function, not undefined.
ObjectPrototype ==
    {"constructor", "toString", "toLocaleString", "valueOf", "hasOwnProperty",
     "isPrototypeOf", "propertyIsEnumerable"}

\* getLevelName with `result !== undefined` weakened to a truthiness test.
getLevelName_truthy(level) ==
    LET k == PropertyKey(level) IN
    IF k \in DOMAIN LEVELTONAME /\ LEVELTONAME[k] # "" THEN Str(LEVELTONAME[k])
    ELSE IF k \in ObjectPrototype THEN Other
    ELSE IF k \in DOMAIN NAMETOLEVEL /\ NAMETOLEVEL[k] # 0 THEN Num(NAMETOLEVEL[k])
    ELSE Str("Level " \o k)

\* getLevelName(level): the value returned, as a tagged value (Other is a
\* value that is neither a number nor a string).
getLevelName(level) ==
    LET k == PropertyKey(level) IN
    IF k \in DOMAIN LEVELTONAME THEN Str(LEVELTONAME[k])
    ELSE IF k \in ObjectPrototype THEN Other
    ELSE IF k \in DOMAIN NAMETOLEVEL THEN Num(NAMETOLEVEL[k])
    ELSE Str("Level " \o k)

\* The assignment `obj[key] = v` on a registry object.
PropertyPut(obj, key, v) ==
    [k \in DOMAIN obj \cup {key} |-> IF k = key THEN v ELSE obj[k]]

\* addLevelName that records the number-to-name direction only.
addLevelName_oneWay(level, levelName) ==
    /\ LEVELTONAME' = PropertyPut(LEVELTONAME, PropertyKey(Num(level)), levelName)
    /\ NAMETOLEVEL' = NAMETOLEVEL
    /\ out' = [NoOut EXCEPT !.op = "addLevelName", !.lvl = level, !.name = levelName]
    /\ UNCHANGED <<logger, loggers, disable, emittedNoHandlerWarning, lastResort, _loggerClass>>

\* addLevelName that also deletes the name-to-number entry of the name the
\* number had before.
addLevelName_cleanup(level, levelName) ==
    /\ LEVELTONAME' = PropertyPut(LEVELTONAME, PropertyKey(Num(level)), levelName)
    /\ NAMETOLEVEL' =
           PropertyPut([k \in {j \in DOMAIN NAMETOLEVEL :
                                 ~(/\ PropertyKey(Num(level)) \in DOMAIN LEVELTONAME
                                   /\ j = LEVELTONAME[PropertyKey(Num(level))])} |->
                           NAMETOLEVEL[k]],
                       levelName, level)
    /\ out' = [NoOut EXCEPT !.op = "addLevelName", !.lvl = level, !.name = levelName]
    /\ UNCHANGED <<logger, loggers, disable, emittedNoHandlerWarning, lastResort, _loggerClass>>

\* addLevelName(level, levelName).
addLevelName(level, levelName) ==
    /\ LEVELTONAME' = PropertyPut(LEVELTONAME, PropertyKey(Num(level)), levelName)
    /\ NAMETOLEVEL' = PropertyPut(NAMETOLEVEL, levelName, level)
    /\ out' = [NoOut EXCEPT !.op = "addLevelName", !.lvl = level, !.name = levelName]
    /\ UNCHANGED <<logger, loggers, disable, emittedNoHandlerWarning, lastResort, _loggerClass>>

\* getLevelName(level) called by the application.
GetLevelName(level) ==
    /\ out' = [NoOut EXCEPT !.op = "getLevelName", !.arg = level,
                            !.ret = getLevelName(level)]
    /\ UNCHANGED <<logger, loggers, disable, emittedNoHandlerWarning, LEVELTONAME, NAMETOLEVEL, lastResort, _loggerClass>>

\* ------------------------------------------------------------------ Logger

\* getEffectiveLevel that does not walk: the logger's own level.
getEffectiveLevel_own(l) == IF l = Null THEN NOTSET ELSE logger[l].level

\* Logger.getEffectiveLevel, called on logger id l.
RECURSIVE getEffectiveLevel(_)
getEffectiveLevel(l) ==
    IF l = Null THEN NOTSET
    ELSE IF logger[l].level # 0 THEN logger[l].level
    ELSE getEffectiveLevel(logger[l].parent)

\* The assignment `this.cache[level] = v`.
CachePut(cache, level, v) ==
    [k \in DOMAIN cache \cup {level} |-> IF k = level THEN v ELSE cache[k]]

\* The condition of the caching branch of Logger.isEnabledFor.
cacheMiss(l, level) ==
    /\ level \notin DOMAIN logger[l].cache
    /\ logger[l].manager
    /\ disable < level

\* isEnabledFor without its first line, the test of this.disabled.
isEnabledFor_noDisabledTest(l, level) ==
    IF cacheMiss(l, level)
    THEN [ret |-> level >= getEffectiveLevel(l),
          cache |-> CachePut(logger[l].cache, level, level >= getEffectiveLevel(l))]
    ELSE [ret |-> FALSE, cache |-> CachePut(logger[l].cache, level, FALSE)]

\* Logger.isEnabledFor: the value returned and the cache it leaves.
isEnabledFor(l, level) ==
    IF logger[l].disabled THEN [ret |-> FALSE, cache |-> logger[l].cache]
    ELSE IF cacheMiss(l, level)
    THEN [ret |-> level >= getEffectiveLevel(l),
          cache |-> CachePut(logger[l].cache, level, level >= getEffectiveLevel(l))]
    ELSE [ret |-> FALSE, cache |-> CachePut(logger[l].cache, level, FALSE)]

\* new Logger(scope, level[, manager]) by the application.
NewLogger(scope, level, m) ==
    /\ Len(logger) < MaxLoggers
    /\ LET cl == checkLevel(level) IN
         IF cl.ok
         THEN /\ logger' = Append(logger, NewLoggerObject(scope, cl.v, m))
              /\ out' = [NoOut EXCEPT !.op = "new Logger", !.lg = Len(logger) + 1,
                                      !.ret = Len(logger) + 1]
         ELSE /\ logger' = logger
              /\ out' = [NoOut EXCEPT !.op = "new Logger", !.thrown = cl.err]
    /\ UNCHANGED <<loggers, disable, emittedNoHandlerWarning, LEVELTONAME, NAMETOLEVEL, lastResort, _loggerClass>>

\* Manager.getLogger(scope).  The body runs only when scope is not a string;
\* nothing is ever returned (ret = Null is undefined).  m: whether the
\* constructor call passes the Manager (logger.ts) or not (index.ts).
getLogger(scope, m) ==
    /\ IF ~scope.str
       THEN \* loggers never holds a Placeholder: the else branch is taken
            /\ Len(logger) < MaxLoggers
            /\ logger' = Append(logger,
                   [NewLoggerObject(scope.s, NOTSET, m) EXCEPT !.class =
                       IF _loggerClass # NullClass THEN _loggerClass ELSE loggerClass])
            /\ loggers' = [k \in DOMAIN loggers \cup {scope.s} |->
                              IF k = scope.s THEN Len(logger) + 1 ELSE loggers[k]]
       ELSE UNCHANGED <<logger, loggers>>
    /\ out' = [NoOut EXCEPT !.op = "getLogger", !.key = scope.s, !.ret = Null]
    /\ UNCHANGED <<disable, emittedNoHandlerWarning, LEVELTONAME, NAMETOLEVEL, lastResort, _loggerClass>>

\* manager.getLogger(scope).getEffectiveLevel(): the method is called on what
\* getLogger returned, which is undefined.
getLoggerGetEffectiveLevel(scope, m) ==
    /\ IF ~scope.str
       THEN /\ Len(logger) < MaxLoggers
            /\ logger' = Append(logger,
                   [NewLoggerObject(scope.s, NOTSET, m) EXCEPT !.class =
                       IF _loggerClass # NullClass THEN _loggerClass ELSE loggerClass])
            /\ loggers' = [k \in DOMAIN loggers \cup {scope.s} |->
                              IF k = scope.s THEN Len(logger) + 1 ELSE loggers[k]]
       ELSE UNCHANGED <<logger, loggers>>
    /\ out' = [NoOut EXCEPT !.op = "getLogger.getEffectiveLevel", !.key = scope.s,
                            !.ret = Null, !.thrown = "TypeError"]
    /\ UNCHANGED <<disable, emittedNoHandlerWarning, LEVELTONAME, NAMETOLEVEL, lastResort, _loggerClass>>

\* Logger.setLevel(level) on logger l.  No cache is cleared.
setLevel(l, level) ==
    /\ l \in 1..Len(logger)
    /\ LET cl == checkLevel(level) IN
         IF cl.ok
         THEN /\ logger' = [logger EXCEPT ![l].level = checkLevel(Num(cl.v)).v]
              /\ out' = [NoOut EXCEPT !.op = "setLevel", !.lg = l, !.lvl = cl.v]
         ELSE /\ logger' = logger
              /\ out' = [NoOut EXCEPT !.op = "setLevel", !.lg = l, !.thrown = cl.err]
    /\ UNCHANGED <<loggers, disable, emittedNoHandlerWarning, LEVELTONAME, NAMETOLEVEL, lastResort, _loggerClass>>

\* logger.getEffectiveLevel() on logger l.
GetEffectiveLevel(l) ==
    /\ l \in 1..Len(logger)
    /\ out' = [NoOut EXCEPT !.op = "getEffectiveLevel", !.lg = l,
                            !.ret = getEffectiveLevel(l)]
    /\ UNCHANGED <<logger, loggers, disable, emittedNoHandlerWarning, LEVELTONAME, NAMETOLEVEL, lastResort, _loggerClass>>

\* logger.isEnabledFor(level) on logger l.
IsEnabledFor(l, level) ==
    /\ l \in 1..Len(logger)
    /\ logger' = [logger EXCEPT ![l].cache = isEnabledFor(l, level).cache]
    /\ out' = [NoOut EXCEPT !.op = "isEnabledFor", !.lg = l, !.lvl = level,
                            !.ret = isEnabledFor(l, level).ret]
    /\ UNCHANGED <<loggers, disable, emittedNoHandlerWarning, LEVELTONAME, NAMETOLEVEL, lastResort, _loggerClass>>

\* Logger.clear() on logger l.
LoggerClear(l) ==
    /\ l \in 1..Len(logger)
    /\ logger' = [logger EXCEPT ![l].cache = << >>]
    /\ out' = [NoOut EXCEPT !.op = "Logger.clear", !.lg = l]
    /\ UNCHANGED <<loggers, disable, emittedNoHandlerWarning, LEVELTONAME, NAMETOLEVEL, lastResort, _loggerClass>>

\* ------------------------------------------------------------------ Manager

\* The Logger ids held as values of Manager.loggers.
Registered == {loggers[k] : k \in DOMAIN loggers}

\* manager.disable = level.
setDisable(level) ==
    /\ LET cl == checkLevel(level) IN
         IF cl.ok
         THEN /\ disable' = cl.v
              /\ out' = [NoOut EXCEPT !.op = "disable=", !.lvl = cl.v]
         ELSE /\ disable' = disable
              /\ out' = [NoOut EXCEPT !.op = "disable=", !.thrown = cl.err]
    /\ UNCHANGED <<logger, loggers, emittedNoHandlerWarning, LEVELTONAME, NAMETOLEVEL, lastResort, _loggerClass>>

\* Manager.clear(): clears the cache of every value of Manager.loggers.
ManagerClear ==
    /\ logger' = [l \in 1..Len(logger) |->
                     IF l \in Registered THEN [logger[l] EXCEPT !.cache = << >>]
                     ELSE logger[l]]
    /\ out' = [NoOut EXCEPT !.op = "Manager.clear"]
    /\ UNCHANGED <<loggers, disable, emittedNoHandlerWarning, LEVELTONAME, NAMETOLEVEL, lastResort, _loggerClass>>

\* The classes an application may hand to the loggerClass setter: Logger, a
\* class extending Logger, and two classes that do not derive from it.
LoggerSubclass == "MyLogger"

Classes == {"Logger", LoggerSubclass, "Handler", "Object"}

\* class_.prototype instanceof Logger.
prototypeInstanceofLogger(class_) == class_ = LoggerSubclass

\* The loggerClass setter with the assignment ahead of the test.
loggerClassSetter_assignFirst(class_) ==
    IF class_ # "Logger" /\ ~prototypeInstanceofLogger(class_)
    THEN [thrown |-> "TypeError", v |-> class_]
    ELSE [thrown |-> "none", v |-> class_]

\* The loggerClass setter: what it throws and what _loggerClass holds after.
loggerClassSetter(class_) ==
    IF class_ # "Logger" /\ ~prototypeInstanceofLogger(class_)
    THEN [thrown |-> "TypeError", v |-> _loggerClass]
    ELSE [thrown |-> "none", v |-> class_]

\* manager.loggerClass = class_.
setLoggerClass(class_) ==
    /\ _loggerClass' = loggerClassSetter(class_).v
    /\ out' = [NoOut EXCEPT !.op = "loggerClass=", !.name = class_,
                            !.thrown = loggerClassSetter(class_).thrown]
    /\ UNCHANGED <<logger, loggers, disable, emittedNoHandlerWarning, LEVELTONAME, NAMETOLEVEL, lastResort>>

\* ------------------------------------------------------------------ dispatch

\* Logger.addHandler(h) on logger l.
addHandler(l, h) ==
    /\ l \in 1..Len(logger)
    /\ Len(logger[l].handlers) < MaxHandlers
    /\ logger' = [logger EXCEPT ![l].handlers =
                     IF \E i \in 1..Len(@) : @[i] = h THEN @ ELSE Append(@, h)]
    /\ out' = [NoOut EXCEPT !.op = "addHandler", !.lg = l, !.name = h]
    /\ UNCHANGED <<loggers, disable, emittedNoHandlerWarning, LEVELTONAME, NAMETOLEVEL, lastResort, _loggerClass>>

\* indexOf: the first (1-based) index holding h, 0 when there is none.
indexOf(hs, h) ==
    IF \E i \in 1..Len(hs) : hs[i] = h
    THEN CHOOSE i \in 1..Len(hs) : hs[i] = h /\ \A j \in 1..(i - 1) : hs[j] # h
    ELSE 0

\* Logger.removeHandler(h) on logger l: `delete this.handlers[i]` leaves a
\* hole at i and the length as it was.
removeHandler(l, h) ==
    /\ l \in 1..Len(logger)
    /\ logger' = [logger EXCEPT ![l].handlers =
                     IF indexOf(@, h) # 0 THEN [@ EXCEPT ![indexOf(@, h)] = Hole] ELSE @]
    /\ out' = [NoOut EXCEPT !.op = "removeHandler", !.lg = l, !.name = h]
    /\ UNCHANGED <<loggers, disable, emittedNoHandlerWarning, LEVELTONAME, NAMETOLEVEL, lastResort, _loggerClass>>

\* Handler.handle(record) on handler h: its filter list is empty, so the
\* record passes and emit is called; the result is what emit throws.
HandlerHandle(h) == hdlr[h].emit

\* The `level` setter of Handler on handler h, entered at call depth `depth`:
\* it evaluates checkLevel(level), which may throw, and assigns the result
\* to this.level, which enters the same setter again; _level is written by
\* no call, and the call that would exceed the engine's stack throws a
\* RangeError.  [thrown, level]: level is what h.level reads afterwards.
RECURSIVE levelSetter(_, _, _)
levelSetter(h, level, depth) ==
    LET cl == checkLevel(level) IN
    IF ~cl.ok THEN [thrown |-> cl.err, level |-> hdlr[h].level, depth |-> depth]
    ELSE IF depth >= MaxStack
    THEN [thrown |-> "RangeError", level |-> hdlr[h].level, depth |-> depth]
    ELSE levelSetter(h, Num(cl.v), depth + 1)

\* h.level = level by the application.
SetHandlerLevel(h, level) ==
    /\ out' = [NoOut EXCEPT !.op = "Handler.level=", !.name = h, !.arg = level,
                            !.thrown = levelSetter(h, level, 1).thrown,
                            !.ret = levelSetter(h, level, 1).level,
                            !.depth = levelSetter(h, level, 1).depth]
    /\ UNCHANGED <<logger, loggers, disable, emittedNoHandlerWarning, LEVELTONAME, NAMETOLEVEL, lastResort, _loggerClass>>

\* The threshold test of callHandlers on one attached handler.
meetsThreshold(levelno, h) == levelno >= hdlr[h].level

\* handlersLoop running over the array from its last element to its first.
RECURSIVE handlersLoop_reversed(_, _, _, _)
handlersLoop_reversed(hs, i, levelno, acc) ==
    IF i > Len(hs) THEN acc
    ELSE LET found == acc.found + 1
             h == hs[Len(hs) + 1 - i] IN
         IF h = Hole
         THEN [acc EXCEPT !.found = found, !.thrown = "TypeError"]
         ELSE IF meetsThreshold(levelno, h)
         THEN IF HandlerHandle(h) # "ok"
              THEN [invoked |-> Append(acc.invoked, h), found |-> found,
                    thrown |-> HandlerHandle(h)]
              ELSE handlersLoop_reversed(hs, i + 1, levelno,
                       [acc EXCEPT !.invoked = Append(@, h), !.found = found])
         ELSE handlersLoop_reversed(hs, i + 1, levelno, [acc EXCEPT !.found = found])

\* The for loop of callHandlers over the handler array hs from index i;
\* acc = [invoked, found, thrown].  Reading .level of a hole throws TypeError;
\* nothing catches what hdlr.handle throws.
RECURSIVE handlersLoop(_, _, _, _)
handlersLoop(hs, i, levelno, acc) ==
    IF i > Len(hs) THEN acc
    ELSE LET found == acc.found + 1 IN
         IF hs[i] = Hole
         THEN [acc EXCEPT !.found = found, !.thrown = "TypeError"]
         ELSE IF meetsThreshold(levelno, hs[i])
         THEN IF HandlerHandle(hs[i]) # "ok"
              THEN [invoked |-> Append(acc.invoked, hs[i]), found |-> found,
                    thrown |-> HandlerHandle(hs[i])]
              ELSE handlersLoop(hs, i + 1, levelno,
                       [acc EXCEPT !.invoked = Append(@, hs[i]), !.found = found])
         ELSE handlersLoop(hs, i + 1, levelno, [acc EXCEPT !.found = found])

\* The while loop of callHandlers from node c.
RECURSIVE walk(_, _, _)
walk(c, levelno, acc) ==
    IF c = Null THEN acc
    ELSE LET a == handlersLoop(logger[c].handlers, 1, levelno, acc) IN
         IF a.thrown # "none" THEN a
         ELSE walk(IF ~logger[c].propagate THEN Null ELSE logger[c].parent, levelno, a)

\* lastResortTakes with the threshold test made strict.
lastResortTakes_strict(levelno) == levelno > hdlr[lastResort].level

\* The test that sends a record to lastResort after a walk that found nothing.
lastResortTakes(levelno) == levelno >= hdlr[lastResort].level

\* callHandlers that does not consult emittedNoHandlerWarning.
callHandlers_noFlag(l, levelno) ==
    LET w == walk(l, levelno, [invoked |-> << >>, found |-> 0, thrown |-> "none"])
        r == [invoked |-> w.invoked, found |-> w.found, thrown |-> w.thrown,
              lastResort |-> 0, diag |-> FALSE]
    IN IF w.thrown # "none" \/ w.found # 0 \/ lastResort = NullHandler THEN r
       ELSE IF lastResortTakes(levelno)
       THEN [r EXCEPT !.lastResort = 1, !.thrown = HandlerHandle(lastResort)]
       ELSE IF throwErrors /\ logger[l].manager THEN [r EXCEPT !.diag = TRUE]
       ELSE r

\* callHandlers that hands the record to lastResort whatever the walk found.
callHandlers_noFoundTest(l, levelno) ==
    LET w == walk(l, levelno, [invoked |-> << >>, found |-> 0, thrown |-> "none"])
        r == [invoked |-> w.invoked, found |-> w.found, thrown |-> w.thrown,
              lastResort |-> 0, diag |-> FALSE]
    IN IF w.thrown # "none" \/ lastResort = NullHandler THEN r
       ELSE IF lastResortTakes(levelno)
       THEN [r EXCEPT !.lastResort = 1, !.thrown = HandlerHandle(lastResort)]
       ELSE IF throwErrors /\ logger[l].manager /\ ~emittedNoHandlerWarning
       THEN [r EXCEPT !.diag = TRUE]
       ELSE r

\* Logger.callHandlers(record) on logger l, record.levelno = levelno:
\* [invoked, found, thrown, lastResort, diag].
callHandlers(l, levelno) ==
    LET w == walk(l, levelno, [invoked |-> << >>, found |-> 0, thrown |-> "none"])
        r == [invoked |-> w.invoked, found |-> w.found, thrown |-> w.thrown,
              lastResort |-> 0, diag |-> FALSE]
    IN IF w.thrown # "none" THEN r
       ELSE IF w.found = 0
       THEN IF lastResort # NullHandler
            THEN IF lastResortTakes(levelno)
                 THEN [r EXCEPT !.lastResort = 1, !.thrown = HandlerHandle(lastResort)]
                 ELSE IF throwErrors /\ logger[l].manager /\ ~emittedNoHandlerWarning
                 THEN [r EXCEPT !.diag = TRUE]
                 ELSE r
            ELSE r
       ELSE r

\* logger.callHandlers(record) on logger l.
CallHandlers(l, levelno) ==
    /\ l \in 1..Len(logger)
    /\ out' = [NoOut EXCEPT !.op = "callHandlers", !.lg = l, !.lvl = levelno,
                            !.ret = callHandlers(l, levelno).found,
                            !.invoked = callHandlers(l, levelno).invoked,
                            !.thrown = callHandlers(l, levelno).thrown,
                            !.lastResort = callHandlers(l, levelno).lastResort,
                            !.diag = callHandlers(l, levelno).diag]
    /\ emittedNoHandlerWarning' =
           (emittedNoHandlerWarning \/ callHandlers(l, levelno).diag)
    /\ UNCHANGED <<logger, loggers, disable, LEVELTONAME, NAMETOLEVEL, lastResort, _loggerClass>>

\* logger.debug(msg) that also sets the logger's level to DEBUG.
debug_setsLevel(l) ==
    /\ l \in 1..Len(logger)
    /\ logger' = [logger EXCEPT ![l].cache = isEnabledFor(l, DEBUG).cache,
                                ![l].level = DEBUG]
    /\ out' = [NoOut EXCEPT !.op = "debug", !.lg = l, !.lvl = DEBUG,
                            !.ret = isEnabledFor(l, DEBUG).ret]
    /\ UNCHANGED <<loggers, disable, emittedNoHandlerWarning, LEVELTONAME, NAMETOLEVEL, lastResort, _loggerClass>>

\* logger.debug(msg) on logger l with the default options: isEnabledFor(DEBUG),
\* then _log, which makes the record and returns; no handler is called.
debug(l) ==
    /\ l \in 1..Len(logger)
    /\ logger' = [logger EXCEPT ![l].cache = isEnabledFor(l, DEBUG).cache]
    /\ out' = [NoOut EXCEPT !.op = "debug", !.lg = l, !.lvl = DEBUG,
                            !.ret = isEnabledFor(l, DEBUG).ret]
    /\ UNCHANGED <<loggers, disable, emittedNoHandlerWarning, LEVELTONAME, NAMETOLEVEL, lastResort, _loggerClass>>

\* The assignment `lastResort = h` to the module's exported binding.
setLastResort(h) ==
    /\ lastResort' = h
    /\ out' = [NoOut EXCEPT !.op = "lastResort="]
    /\ UNCHANGED <<logger, loggers, disable, emittedNoHandlerWarning, LEVELTONAME, NAMETOLEVEL, _loggerClass>>

\* ------------------------------------------------------------------ Filter

\* String.prototype.substring(0, n).
substring0(s, n) == SubSeq(s, 1, IF n < Len(s) THEN n ELSE Len(s))

\* s[n] of a string (0-based); "undefined" past the end.
charAt(s, n) == IF n < Len(s) THEN s[n + 1] ELSE "undefined"

\* Filter.filter of a Filter constructed with `scope`, on a record of
\* scope `rscope`.  An empty substring is the only falsy one.
FilterFilter(scope, rscope) ==
    IF Len(scope) = 0 \/ scope = rscope THEN TRUE
    ELSE IF substring0(rscope, Len(scope)) = << >> THEN FALSE
    ELSE charAt(rscope, Len(scope)) = "."

\* Filter.filter applied to the inputs held in out.
ApplyFilter ==
    /\ out.op = "Filter input"
    /\ out' = [out EXCEPT !.op = "Filter.filter",
                          !.ret = FilterFilter(out.key, out.rscope)]
    /\ UNCHANGED <<logger, loggers, disable, emittedNoHandlerWarning, LEVELTONAME, NAMETOLEVEL, lastResort, _loggerClass>>

\* ------------------------------------------------------------------ Filterer

\* The filters the application has constructed.  F_a is new Filter("a"), an
\* object with a filter method; fnFalse is a function that returns false;
\* fnRecord is a function that returns a new LogRecord of scope "a" and
\* level CRITICAL.
fltr ==
    [F_a |-> [method |-> TRUE, scope |-> S_a],
     fnFalse |-> [method |-> FALSE, scope |-> S_empty],
     fnRecord |-> [method |-> FALSE, scope |-> S_empty]]

\* What filter f returns for a record: [truthy, isRecord, record].
FilterResult(f, record) ==
    IF fltr[f].method
    THEN [truthy |-> FilterFilter(fltr[f].scope, record.scope), isRecord |-> FALSE,
          record |-> NullRecord]
    ELSE IF f = "fnRecord"
    THEN [truthy |-> TRUE, isRecord |-> TRUE, record |-> LogRecord(S_a, CRITICAL)]
    ELSE [truthy |-> FALSE, isRecord |-> FALSE, record |-> NullRecord]

\* Filterer.addFilter(f) on logger l.
addFilter(l, f) ==
    /\ l \in 1..Len(logger)
    /\ logger' = [logger EXCEPT ![l].filters =
                     IF \E i \in 1..Len(@) : @[i] = f THEN @ ELSE Append(@, f)]
    /\ out' = [NoOut EXCEPT !.op = "addFilter", !.lg = l, !.name = f]
    /\ UNCHANGED <<loggers, disable, emittedNoHandlerWarning, LEVELTONAME, NAMETOLEVEL, lastResort, _loggerClass>>

\* Array.prototype.splice(i, 1) at the 1-based index i.
splice1(a, i) == SubSeq(a, 1, i - 1) \o SubSeq(a, i + 1, Len(a))

\* removeFilter that removes the last filter of the list.
removeFilter_pop(l, f) ==
    /\ l \in 1..Len(logger)
    /\ logger' = [logger EXCEPT ![l].filters =
                     IF \E i \in 1..Len(@) : @[i] = f THEN SubSeq(@, 1, Len(@) - 1) ELSE @]
    /\ out' = [NoOut EXCEPT !.op = "removeFilter", !.lg = l, !.name = f]
    /\ UNCHANGED <<loggers, disable, emittedNoHandlerWarning, LEVELTONAME, NAMETOLEVEL, lastResort, _loggerClass>>

\* Filterer.removeFilter(f) on logger l.
removeFilter(l, f) ==
    /\ l \in 1..Len(logger)
    /\ logger' = [logger EXCEPT ![l].filters =
                     IF \E i \in 1..Len(@) : @[i] = f THEN splice1(@, indexOf(@, f)) ELSE @]
    /\ out' = [NoOut EXCEPT !.op = "removeFilter", !.lg = l, !.name = f]
    /\ UNCHANGED <<loggers, disable, emittedNoHandlerWarning, LEVELTONAME, NAMETOLEVEL, lastResort, _loggerClass>>

\* filterLoop that hands every filter the record it was first given.
RECURSIVE filterLoop_noReplace(_, _, _, _)
filterLoop_noReplace(fs, i, record, called) ==
    IF i > Len(fs) THEN [ret |-> record, called |-> called]
    ELSE LET result == FilterResult(fs[i], record)
             c == Append(called, [f |-> fs[i], record |-> record]) IN
         IF ~result.truthy THEN [ret |-> NullRecord, called |-> c]
         ELSE filterLoop_noReplace(fs, i + 1, record, c)

\* The loop of Filterer.filter over the filter array fs from index i:
\* [ret, called]; called lists each filter called with the record it got.
RECURSIVE filterLoop(_, _, _, _)
filterLoop(fs, i, record, called) ==
    IF i > Len(fs) THEN [ret |-> record, called |-> called]
    ELSE LET result == FilterResult(fs[i], record)
             c == Append(called, [f |-> fs[i], record |-> record]) IN
         IF ~result.truthy THEN [ret |-> NullRecord, called |-> c]
         ELSE filterLoop(fs, i + 1, IF result.isRecord THEN result.record ELSE record, c)

\* Filterer.filter(record) on a filter array.
FiltererFilter(fs, record) == filterLoop(fs, 1, record, << >>)

\* logger.filter(record) on logger l.
Filter(l, record) ==
    /\ l \in 1..Len(logger)
    /\ out' = [NoOut EXCEPT !.op = "Filterer.filter", !.lg = l, !.record = record,
                            !.ret = FiltererFilter(logger[l].filters, record).ret,
                            !.called = FiltererFilter(logger[l].filters, record).called]
    /\ UNCHANGED <<logger, loggers, disable, emittedNoHandlerWarning, LEVELTONAME, NAMETOLEVEL, lastResort, _loggerClass>>

\* What Logger.handle does when nothing is dispatched.
NoDispatch ==
    [invoked |-> << >>, found |-> 0, thrown |-> "none", lastResort |-> 0, diag |-> FALSE]

\* Logger.handle without the disabled test and the filter chain.
handle_unfiltered(l, record) == callHandlers(l, record.levelno)

\* Logger.handle(scope, record) on logger l: the result of callHandlers on
\* the record the filter chain lets through, or nothing.
handle(l, record) ==
    IF logger[l].disabled THEN NoDispatch
    ELSE LET maybeRecord == FiltererFilter(logger[l].filters, record).ret IN
         IF maybeRecord.isNull THEN NoDispatch
         ELSE callHandlers(l, maybeRecord.levelno)

\* logger.handle(scope, record) on logger l.
Handle(l, record) ==
    /\ l \in 1..Len(logger)
    /\ out' = [NoOut EXCEPT !.op = "Logger.handle", !.lg = l, !.record = record,
                            !.lvl = record.levelno,
                            !.invoked = handle(l, record).invoked,
                            !.thrown = handle(l, record).thrown,
                            !.lastResort = handle(l, record).lastResort,
                            !.diag = handle(l, record).diag]
    /\ emittedNoHandlerWarning' = (emittedNoHandlerWarning \/ handle(l, record).diag)
    /\ UNCHANGED <<logger, loggers, disable, LEVELTONAME, NAMETOLEVEL, lastResort, _loggerClass>>

\* Handler.handle that emits the record it was given, whatever the filter
\* chain returned.
handlerHandle_emitAlways(h, fs, record) ==
    [emitted |-> << record >>, thrown |-> hdlr[h].emit]

\* Handler.handle(record) on handler h whose filter list is fs: the records
\* emit was called with, and what the call throws.
handlerHandle(h, fs, record) ==
    LET rv == FiltererFilter(fs, record).ret IN
    IF rv.isNull THEN [emitted |-> << >>, thrown |-> "none"]
    ELSE [emitted |-> << rv >>, thrown |-> hdlr[h].emit]

\* h.handle(record) on handler h after h.addFilter of each filter of fs.
HandlerHandleRecord(h, fs, record) ==
    /\ out' = [NoOut EXCEPT !.op = "Handler.handle", !.name = h, !.filters = fs,
                            !.record = record,
                            !.emitted = handlerHandle(h, fs, record).emitted,
                            !.thrown = handlerHandle(h, fs, record).thrown]
    /\ UNCHANGED <<logger, loggers, disable, emittedNoHandlerWarning, LEVELTONAME, NAMETOLEVEL, lastResort, _loggerClass>>

\* ------------------------------------------------------------------ basicConfig

\* The keys of STYLES.
STYLES == {"%"}

\* The handlers basicConfig would construct for a filename and for a stream.
FileHandler == "FileHandler"

StreamHandler == "StreamHandler"

\* The `force` loop over the root's handler array hs from index i: each
\* element is removed (leaving a hole, the length is read again each round
\* and stays) and closed; at a hole h is undefined, removeHandler finds
\* nothing and h.close() throws a TypeError.
RECURSIVE forceLoop(_, _)
forceLoop(hs, i) ==
    IF i > Len(hs) THEN [handlers |-> hs, thrown |-> "none"]
    ELSE IF hs[i] = Hole THEN [handlers |-> hs, thrown |-> "TypeError"]
    ELSE forceLoop([hs EXCEPT ![indexOf(hs, hs[i])] = Hole], i + 1)

\* The loop that attaches the handlers hs to the root, whose handler array
\* is rootHandlers: addHandler pushes a handler that is not in the array.
\* (h.formatter reads as undefined, Handler has a setter only, so no
\* formatter is set.)
RECURSIVE attachLoop(_, _, _)
attachLoop(hs, i, rootHandlers) ==
    IF i > Len(hs) THEN rootHandlers
    ELSE attachLoop(hs, i + 1,
                    IF indexOf(rootHandlers, hs[i]) = 0 THEN Append(rootHandlers, hs[i])
                    ELSE rootHandlers)

\* basicConfig that tests the conflicts before the length of the list.
basicConfig_conflictsFirst(options) ==
    IF (options.filename /\ options.stream)
       \/ ((options.filename \/ options.stream) /\ options.handlers # << >>)
    THEN [thrown |-> "ValueError", message |-> "should not be specified together",
          handlers |-> logger[ROOT].handlers, level |-> logger[ROOT].level]
    ELSE [thrown |-> "none", message |-> "",
          handlers |-> logger[ROOT].handlers, level |-> logger[ROOT].level]

\* basicConfig(options): what it throws (with the start of the message), and
\* the root's handler array and level when it returns or throws.
basicConfig(options) ==
    LET force == options.force
        handlers == options.handlers       \* options.handlers ?? []
        handlersIsNull == FALSE            \* `??` has replaced null by []
        filename == options.filename
        stream == options.stream
        style == IF options.filemode # "" THEN options.filemode ELSE "%"
        hasLevel == options.hasLevel       \* level !== null
        root == logger[ROOT]
        forced == IF force THEN forceLoop(root.handlers, 1)
                  ELSE [handlers |-> root.handlers, thrown |-> "none"]
        made == IF handlersIsNull
                THEN (IF filename THEN << FileHandler >> ELSE << StreamHandler >>)
                ELSE handlers
        attached == attachLoop(made, 1, forced.handlers)
        cl == checkLevel(options.level)
    IN IF style \notin STYLES
       THEN [thrown |-> "ValueError", message |-> "style must be one of",
             handlers |-> root.handlers, level |-> root.level]
       ELSE IF forced.thrown # "none"
       THEN [thrown |-> forced.thrown, message |-> "",
             handlers |-> forced.handlers, level |-> root.level]
       ELSE IF Len(handlers) # 0
       THEN [thrown |-> "none", message |-> "",
             handlers |-> forced.handlers, level |-> root.level]
       ELSE IF (handlersIsNull /\ stream /\ filename) \/ stream \/ filename
       THEN [thrown |-> "ValueError", message |-> "should not be specified together",
             handlers |-> forced.handlers, level |-> root.level]
       ELSE IF hasLevel /\ ~cl.ok
       THEN [thrown |-> cl.err, message |-> "",
             handlers |-> attached, level |-> root.level]
       ELSE [thrown |-> "ValueError", message |-> "Unrecognised argument(s)",
             handlers |-> attached,
             level |-> IF hasLevel THEN cl.v ELSE root.level]

\* basicConfig(options) by the application.
BasicConfig(options) ==
    /\ logger' = [logger EXCEPT ![ROOT].handlers = basicConfig(options).handlers,
                                ![ROOT].level = basicConfig(options).level]
    /\ out' = [NoOut EXCEPT !.op = "basicConfig", !.options = options,
                            !.thrown = basicConfig(options).thrown,
                            !.name = basicConfig(options).message]
    /\ UNCHANGED <<loggers, disable, emittedNoHandlerWarning, LEVELTONAME, NAMETOLEVEL, lastResort, _loggerClass>>

\* ------------------------------------------------------------------ makeRecord

\* The own properties of a LogRecord the factory returns.
RecordAttributes == {"levelno", "levelname", "scope", "created"}

\* Whether a LogRecord has a keys method: the class declares none.
LogRecordHasKeys == FALSE

\* The forEach of makeRecord over the entries of extra from index i; attrs is
\* the set of properties the record has so far: [thrown, attrs].
RECURSIVE makeRecordLoop(_, _, _)
makeRecordLoop(keys, i, attrs) ==
    IF i > Len(keys) THEN [thrown |-> "none", attrs |-> attrs]
    ELSE IF keys[i] \in {"message", "asctime"}
    THEN [thrown |-> "KeyError", attrs |-> attrs]
    ELSE IF ~LogRecordHasKeys
    THEN [thrown |-> "TypeError", attrs |-> attrs]
    ELSE IF keys[i] \in attrs
    THEN [thrown |-> "KeyError", attrs |-> attrs]
    ELSE makeRecordLoop(keys, i + 1, attrs \cup {keys[i]})

\* Logger.makeRecord(name, level, msg, options) with options.extra = extra.
makeRecord(extra) ==
    IF extra.isNull THEN [thrown |-> "none", attrs |-> RecordAttributes]
    ELSE makeRecordLoop(extra.keys, 1, RecordAttributes)

\* makeRecord applied to the extra map held in out.
MakeRecord ==
    /\ out.op = "input"
    /\ out' = [out EXCEPT !.op = "makeRecord",
                          !.thrown = makeRecord(out.extra).thrown,
                          !.ret = makeRecord(out.extra).attrs]
    /\ UNCHANGED <<logger, loggers, disable, emittedNoHandlerWarning, LEVELTONAME, NAMETOLEVEL, lastResort, _loggerClass>>

\* ------------------------------------------------------------------ inputs

\* Scopes the application constructs loggers with.
LoggerScopes == {S_a, S_ab}

\* Scope arguments given to Manager.getLogger.
GetLoggerScopes == {StringScope(S_a), StringScope(S_ab), StringScope(S_abc), NonStringScope}

\* Level arguments given to setLevel and to the disable setter.
LevelArgs == {Num(NOTSET), Num(DEBUG), Str("INFO"), Str("WARN"), Other}

\* Levels queried with isEnabledFor.
QueryLevels == {DEBUG, WARNING, CRITICAL + 10}

\* Levels of the records dispatched.
RecordLevels == {DEBUG, WARNING, CRITICAL}

\* Characters of the scope strings in FilterSpec.
Alphabet == {"a", "b", "c", "x", "y", "."}

StringsUpTo(n) == UNION {[1..k -> Alphabet] : k \in 0..n}

\* Scopes Filters are constructed with in FilterSpec.
FilterScopes == {S_empty, S_a, S_ab}

\* The built-in level numbers and their canonical names.
BuiltinLevels == {CRITICAL, ERROR, WARNING, INFO, DEBUG, NOTSET}

BuiltinNames == {"CRITICAL", "ERROR", "WARNING", "INFO", "DEBUG", "NOTSET"}

\* Numbers and names registered with addLevelName in RegistrySpec.
RegisterLevels == {ERROR, 80}

RegisterNames == {"ERROR", "FOOBAR", "40"}

\* Arguments getLevelName is called with in RegistrySpec.
GetLevelNameArgs ==
    {Num(n) : n \in BuiltinLevels \cup {80, 5}}
        \cup {Str(n) : n \in BuiltinNames \cup {"FATAL", "WARN", "FOOBAR", "40", "50", "toString"}}

\* Arguments checkLevel, setLevel and the disable setter get in RegistrySpec.
CheckLevelArgs == {Num(DEBUG), Num(5), Str("ERROR"), Str("FOOBAR"), Str("WARN"), Other}

\* The filters attached to and removed from loggers.
Filters == {"F_a", "fnFalse", "fnRecord"}

\* The records given to Filterer.filter and Logger.handle.
Records == {LogRecord(sc, lv) : sc \in {S_a, <<"x">>}, lv \in {DEBUG, WARNING}}

\* The filter lists a handler can hold: addFilter keeps each filter once.
FilterLists ==
    {fs \in UNION {[1..n -> Filters] : n \in 0..MaxFilters} :
        \A i, j \in 1..Len(fs) : fs[i] = fs[j] => i = j}

\* The options given to basicConfig.
BasicConfigOptions ==
    {o \in {Options(hs, f, st, fm, hl, lv, fo) :
                hs \in {<< >>, << "D1" >>, << "D1", "D2" >>},
                f \in BOOLEAN, st \in BOOLEAN, fm \in {"", "a", "w"},
                hl \in BOOLEAN, lv \in {Num(DEBUG), Str("INFO"), Other},
                fo \in BOOLEAN} :
        ~o.hasLevel => o.level = Other}

\* Keys of the extra maps given to makeRecord.
ExtraKeys == {"message", "asctime", "levelno", "user", "ip"}

\* The extra maps: null, and every map of up to MaxExtraKeys of the keys, in
\* every order of entries.
Extras ==
    {NullExtra} \cup
        {Extra(ks) : ks \in {q \in UNION {[1..n -> ExtraKeys] : n \in 0..MaxExtraKeys} :
                                \A i, j \in DOMAIN q : q[i] = q[j] => i = j}}

\* ------------------------------------------------------------------ specifications

\* The logger tree: loggers created, looked up, levels set and resolved.
Next ==
    \/ \E s \in LoggerScopes, m \in BOOLEAN : NewLogger(s, Num(NOTSET), m)
    \/ \E s \in GetLoggerScopes, m \in BOOLEAN : getLogger(s, m)
    \/ \E s \in GetLoggerScopes, m \in BOOLEAN : getLoggerGetEffectiveLevel(s, m)
    \/ \E l \in 1..Len(logger), level \in LevelArgs : setLevel(l, level)
    \/ \E l \in 1..Len(logger) : GetEffectiveLevel(l)

Spec == Init /\ [][Next]_vars

\* Enablement: ROOT and one more logger, which the application constructed
\* itself (as a Logger, or as an instance of a subclass that declares
\* disabled = true) or had Manager.getLogger create with a non-string scope,
\* with or without a Manager.
InitEnable ==
    \E m \in BOOLEAN :
        \/ \E d \in BOOLEAN :
              Loaded(<< RootLogger, [NewLoggerObject(S_a, NOTSET, m) EXCEPT !.disabled = d] >>,
                     << >>)
        \/ Loaded(<< RootLogger, NewLoggerObject(NonStringScope.s, NOTSET, m) >>,
                  (NonStringScope.s :> 2))

NextEnable ==
    \/ \E l \in 1..Len(logger), level \in LevelArgs : setLevel(l, level)
    \/ \E l \in 1..Len(logger), q \in QueryLevels : IsEnabledFor(l, q)
    \/ \E l \in 1..Len(logger) : LoggerClear(l)
    \/ \E level \in LevelArgs : setDisable(level)
    \/ ManagerClear

EnableSpec == InitEnable /\ [][NextEnable]_vars

\* Dispatch: ROOT and one more logger, constructed with or without a Manager;
\* handlers attached and removed, records dispatched, debug called.
InitDispatch ==
    \E m \in BOOLEAN : Loaded(<< RootLogger, NewLoggerObject(S_a, NOTSET, m) >>, << >>)

NextDispatch ==
    \/ \E l \in 1..Len(logger), h \in Attachable : addHandler(l, h)
    \/ \E l \in 1..Len(logger), h \in Attachable : removeHandler(l, h)
    \/ \E l \in 1..Len(logger), levelno \in RecordLevels : CallHandlers(l, levelno)
    \/ \E l \in 1..Len(logger) : debug(l)
    \/ \E h \in {DEFAULT_LAST_RESORT, NullHandler} : setLastResort(h)

DispatchSpec == InitDispatch /\ [][NextDispatch]_vars

\* Filter.filter on every filter scope and record scope within the bounds.
InitFilter ==
    \E f \in FilterScopes, r \in StringsUpTo(MaxScopeLen) :
        /\ logger = << RootLogger >>
        /\ loggers = << >>
        /\ disable = 0
        /\ emittedNoHandlerWarning = FALSE
        /\ LEVELTONAME = (ToString(NOTSET) :> "NOTSET")
        /\ NAMETOLEVEL = ("NOTSET" :> NOTSET)
        /\ lastResort = DEFAULT_LAST_RESORT
        /\ _loggerClass = NullClass
        /\ out = [NoOut EXCEPT !.op = "Filter input", !.key = f, !.rscope = r]

NextFilter == ApplyFilter

FilterSpec == InitFilter /\ [][NextFilter]_vars

\* The level registry: names registered and looked up, levels validated
\* and set on the root logger and the Manager.
NextRegistry ==
    \/ \E level \in RegisterLevels, levelName \in RegisterNames : addLevelName(level, levelName)
    \/ \E level \in GetLevelNameArgs : GetLevelName(level)
    \/ \E level \in CheckLevelArgs : CheckLevel(level)
    \/ \E level \in CheckLevelArgs : setLevel(ROOT, level)
    \/ \E level \in CheckLevelArgs : setDisable(level)

RegistrySpec == Init /\ [][NextRegistry]_vars

\* Filtering: ROOT and one more logger, an instance of Logger or of an
\* application subclass that declares disabled = true, with or without a
\* Manager and with or without the handler D1; filters are added and
\* removed, records filtered and handled, debug called.
InitHandle ==
    \E m \in BOOLEAN, d \in BOOLEAN, hs \in {<< >>, << "D1" >>} :
        Loaded(<< RootLogger,
                  [NewLoggerObject(S_a, NOTSET, m) EXCEPT !.disabled = d, !.handlers = hs] >>,
               << >>)

NextHandle ==
    \/ \E f \in Filters : Len(logger[2].filters) < MaxFilters /\ addFilter(2, f)
    \/ \E f \in Filters : removeFilter(2, f)
    \/ \E r \in Records : Filter(2, r)
    \/ \E r \in Records : Handle(2, r)
    \/ debug(2)
    \/ \E h \in Attachable, fs \in FilterLists, r \in Records : HandlerHandleRecord(h, fs, r)

HandleSpec == InitHandle /\ [][NextHandle]_vars

\* Parent chains: ROOT and loggers of an application subclass that declares
\* parent, each linked to an earlier logger or to none; levels are set and
\* effective levels resolved.
InitChain ==
    \E par \in [2..MaxChain -> 0..(MaxChain - 1)] :
        /\ \A i \in 2..MaxChain : par[i] < i
        /\ Loaded([i \in 1..MaxChain |->
                      IF i = ROOT THEN RootLogger
                      ELSE [NewLoggerObject(S_a, NOTSET, FALSE) EXCEPT !.parent = par[i]]],
                  << >>)

NextChain ==
    \/ \E l \in 1..Len(logger), level \in LevelArgs : setLevel(l, level)
    \/ \E l \in 1..Len(logger) : GetEffectiveLevel(l)

ChainSpec == InitChain /\ [][NextChain]_vars

\* Logger.makeRecord on every extra map within the bounds.
InitRecord ==
    \E x \in Extras :
        /\ logger = << RootLogger >>
        /\ loggers = << >>
        /\ disable = 0
        /\ emittedNoHandlerWarning = FALSE
        /\ LEVELTONAME = (ToString(NOTSET) :> "NOTSET")
        /\ NAMETOLEVEL = ("NOTSET" :> NOTSET)
        /\ lastResort = DEFAULT_LAST_RESORT
        /\ _loggerClass = NullClass
        /\ out = [NoOut EXCEPT !.op = "input", !.extra = x]

NextRecord == MakeRecord

RecordSpec == InitRecord /\ [][NextRecord]_vars

\* The Manager's logger class and the loggers getLogger creates with it.
NextManager ==
    \/ \E c \in Classes : setLoggerClass(c)
    \/ \E s \in GetLoggerScopes, m \in BOOLEAN : getLogger(s, m)

ManagerSpec == Init /\ [][NextManager]_vars

\* The root logger under the calls that build and configure the tree.
NextRoot ==
    \/ \E s \in GetLoggerScopes, m \in BOOLEAN : getLogger(s, m)
    \/ \E l \in 1..MaxLoggers, v \in LevelArgs : setLevel(l, v)
    \/ \E h \in Attachable : addHandler(ROOT, h)

RootSpec == Init /\ [][NextRoot]_vars

\* basicConfig on a root logger whose handlers are attached and removed.
NextConfig ==
    \/ \E o \in BasicConfigOptions : BasicConfig(o)
    \/ \E h \in Attachable : addHandler(ROOT, h)
    \/ \E h \in Attachable : removeHandler(ROOT, h)

ConfigSpec == Init /\ [][NextConfig]_vars

\* Handler thresholds: assignments to a handler's level between dispatches
\* on the root.
NextHandler ==
    \/ \E h \in Attachable \cup {DEFAULT_LAST_RESORT}, v \in LevelArgs : SetHandlerLevel(h, v)
    \/ \E h \in Attachable : addHandler(ROOT, h)
    \/ \E h \in Attachable : removeHandler(ROOT, h)
    \/ \E levelno \in RecordLevels : CallHandlers(ROOT, levelno)

HandlerSpec == Init /\ [][NextHandler]_vars

\* ------------------------------------------------------------------ claims

Range(f) == {f[i] : i \in DOMAIN f}

\* C1: Manager.getLogger is memoized by scope: every getLogger(s) returns a
\* Logger instance, the one the Manager holds for s, and when the Manager
\* already held one for s the call returns that identical instance.
C1_GetLoggerMemoized ==
    [][out'.op = "getLogger" =>
          /\ out'.ret # Null
          /\ out'.key \in DOMAIN loggers'
          /\ loggers'[out'.key] = out'.ret
          /\ (out'.key \in DOMAIN loggers => loggers'[out'.key] = loggers[out'.key])]_vars

\* The scopes that are proper dot-bounded prefixes of scope s.
ProperDotPrefixes(s) == {SubSeq(s, 1, i - 1) : i \in {j \in 1..Len(s) : s[j] = "."}}

\* The parent C2 gives the logger held under key k: the held logger of the
\* longest proper dot-bounded prefix, or the root.
ClaimedParent(k) ==
    LET ps == {p \in ProperDotPrefixes(k) : p \in DOMAIN loggers} IN
    IF ps = {} THEN ROOT
    ELSE loggers[CHOOSE p \in ps : \A q \in ps : Len(q) <= Len(p)]

\* C2: after any sequence of getLogger calls the scope just asked for has its
\* Logger, and the parent of every Logger the Manager holds is the held
\* Logger of its longest proper dot-bounded prefix, or the root.
C2_ParentIsLongestPrefix ==
    /\ (out.op = "getLogger" => out.key \in DOMAIN loggers)
    /\ \A k \in DOMAIN loggers : logger[loggers[k]].parent = ClaimedParent(k)

\* C3: with "a.b" at NOTSET, "a" at INFO and the root at WARNING,
\* getLogger("a.b").getEffectiveLevel() returns INFO.
C3_NearestExplicitAncestor ==
    (/\ out.op = "getLogger.getEffectiveLevel"
     /\ out.key = S_ab
     /\ logger[ROOT].level = WARNING
     /\ \E l \in 1..Len(logger) : logger[l].scope = S_a /\ logger[l].level = INFO
     /\ \E l \in 1..Len(logger) : logger[l].scope = S_ab /\ logger[l].level = NOTSET)
    => (out.thrown = "none" /\ out.ret = INFO)

\* What the specification says isEnabledFor(q) returns on logger l.
ClaimedEnabled(l, q) ==
    /\ ~logger[l].disabled
    /\ ~(disable >= q)
    /\ q >= getEffectiveLevel(l)

\* C4: on a logger that belongs to a Manager, isEnabledFor(q) is false if the
\* logger is disabled, false if the disable threshold is >= q, and otherwise
\* true exactly when q >= getEffectiveLevel().
C4_IsEnabledFor ==
    (/\ out.op = "isEnabledFor"
     /\ (logger[out.lg].manager \/ out.lg \in Registered))
    => (out.ret = ClaimedEnabled(out.lg, out.lvl))

\* C5: an isEnabledFor(q) that follows a setLevel on the same logger (of a
\* Manager), for a q whose result was cached before the change, returns the
\* value the levels now in force determine (the call changes no level, so
\* these are the levels of the state it starts in).
C5_CacheInvalidatedOnSetLevel ==
    [][(/\ out.op = "setLevel"
        /\ out.thrown = "none"
        /\ out'.op = "isEnabledFor"
        /\ out'.lg = out.lg
        /\ logger[out.lg].manager
        /\ out'.lvl \in DOMAIN logger[out.lg].cache)
       => (out'.ret = ClaimedEnabled(out.lg, out'.lvl))]_vars

\* The nodes a dispatch from n walks: n, its parent, ... up to and including
\* the first node whose propagate flag is false, or the root.
RECURSIVE Chain(_)
Chain(c) ==
    IF c = Null THEN {}
    ELSE {c} \cup (IF ~logger[c].propagate THEN {} ELSE Chain(logger[c].parent))

\* The handlers attached to the nodes walked from n whose threshold a record
\* of level levelno meets.
Eligible(n, levelno) ==
    {h \in Attachable :
        /\ levelno >= hdlr[h].level
        /\ \E c \in Chain(n) : h \in Range(logger[c].handlers)}

\* C6: a dispatch from logger n invokes exactly the handlers attached to the
\* walked nodes whose threshold the record meets, each once.
C6_DispatchInvokesExactlyEligible ==
    out.op = "callHandlers" =>
        /\ Range(out.invoked) = Eligible(out.lg, out.lvl)
        /\ Len(out.invoked) = Cardinality(Eligible(out.lg, out.lvl))

\* C7 as claimed: after a walk that ran to its end and invoked no
\* destination (handlers with too high a threshold may be attached), a record
\* at or above lastResort's level is handled by lastResort exactly once.
C7_LastResortWhenNoneInvoked ==
    (/\ out.op = "callHandlers"
     /\ (out.thrown = "none" \/ out.lastResort = 1)
     /\ out.invoked = << >>
     /\ lastResort # NullHandler
     /\ out.lvl >= hdlr[lastResort].level)
    => out.lastResort = 1

\* No handler array of a node walked from n has an element.
NoneFound(n) == \A c \in Chain(n) : Len(logger[c].handlers) = 0

\* C7 as amended: after a walk that found no handler on any walked node, a
\* record at or above lastResort's level is handled by lastResort exactly
\* once, and by no other handler.
C7_LastResortWhenNoneFound ==
    (/\ out.op = "callHandlers"
     /\ NoneFound(out.lg)
     /\ lastResort # NullHandler
     /\ out.lvl >= hdlr[lastResort].level)
    => (out.lastResort = 1 /\ out.invoked = << >>)

\* A dispatch of a WARNING record from a logger without handlers reached
\* lastResort.
C7_Witness ==
    /\ out.op = "callHandlers"
    /\ NoneFound(out.lg)
    /\ out.lvl = WARNING
    /\ out.lastResort = 1

\* C8: a debug call on a logger enabled for DEBUG dispatches the record:
\* every eligible handler on the walk handles it, and with no handler on the
\* walk lastResort handles it once if the record meets its threshold.
C8_LoggingCallDispatches ==
    (out.op = "debug" /\ out.ret = TRUE) =>
        /\ Range(out.invoked) = Eligible(out.lg, DEBUG)
        /\ ((NoneFound(out.lg) /\ lastResort # NullHandler /\ DEBUG >= hdlr[lastResort].level)
                => out.lastResort = 1)

\* C9: when the emit of an invoked handler throws, every eligible handler of
\* the walk is still invoked.
C9_WalkSurvivesEmitError ==
    (/\ out.op = "callHandlers"
     /\ \E i \in DOMAIN out.invoked : hdlr[out.invoked[i]].emit # "ok")
    => Eligible(out.lg, out.lvl) \subseteq Range(out.invoked)

\* p is a prefix of s.
IsPrefix(p, s) == Len(p) <= Len(s) /\ SubSeq(s, 1, Len(p)) = p

\* C10: Filter(f).filter on a record of scope r is true if and only if f is
\* empty, or r = f, or f + "." is a prefix of r.
C10_FilterMatchesDotBoundedPrefix ==
    out.op = "Filter.filter" =>
        (out.ret <=> (\/ out.key = << >>
                      \/ out.rscope = out.key
                      \/ IsPrefix(out.key \o <<".">>, out.rscope)))

\* The canonical name of a built-in level number.
CanonicalName(n) ==
    CASE n = CRITICAL -> "CRITICAL"
      [] n = ERROR -> "ERROR"
      [] n = WARNING -> "WARNING"
      [] n = INFO -> "INFO"
      [] n = DEBUG -> "DEBUG"
      [] n = NOTSET -> "NOTSET"

\* The registry holds the built-in pairs and nothing else.
InitialRegistry ==
    /\ DOMAIN LEVELTONAME = {ToString(n) : n \in BuiltinLevels}
    /\ DOMAIN NAMETOLEVEL = BuiltinNames
    /\ \A n \in BuiltinLevels :
          /\ LEVELTONAME[ToString(n)] = CanonicalName(n)
          /\ NAMETOLEVEL[CanonicalName(n)] = n

\* C11: in the initial registry state getLevelName maps each built-in number
\* to its canonical name (FATAL and WARN give "CRITICAL" and "WARNING") and
\* each of the six canonical names back to its number.
C11_BuiltinsMutuallyInverse ==
    InitialRegistry =>
        /\ \A n \in BuiltinLevels :
              /\ getLevelName(Num(n)) = Str(CanonicalName(n))
              /\ getLevelName(Str(CanonicalName(n))) = Num(n)
        /\ getLevelName(Num(FATAL)) = Str("CRITICAL")
        /\ getLevelName(Num(WARN)) = Str("WARNING")
        /\ (out.op = "getLevelName" /\ out.arg \in {Num(n) : n \in BuiltinLevels}
               => out.ret = Str(CanonicalName(out.arg.n)))
        /\ (out.op = "getLevelName" /\ out.arg \in {Str(n) : n \in BuiltinNames}
               => getLevelName(out.ret) = out.arg)

\* In the initial registry state getLevelName("NOTSET") returned 0.
C11_Witness ==
    /\ InitialRegistry
    /\ out.op = "getLevelName"
    /\ out.arg = Str("NOTSET")
    /\ out.ret = Num(NOTSET)

\* The numbers the registry can hold a name for.
RegistryLevels == BuiltinLevels \cup RegisterLevels

C13_LastRegistrationWins ==
    out.op = "addLevelName" =>
        /\ out.thrown = "none"
        /\ getLevelName(Num(out.lvl)) = Str(out.name)
        /\ getLevelName(Str(out.name)) = Num(out.lvl)

\* The names addLevelName and getLevelName are given in RegistrySpec.
RegistryNames == BuiltinNames \cup RegisterNames

\* C14: addLevelName(L, N) removes no reverse entry: L now resolves to N,
\* every other name that resolved to L before still resolves to L, and every
\* other number that resolved to N before still resolves to N.
C14_NoCleanup ==
    [][\A L \in RegistryLevels, N \in RegistryNames :
          (out'.op = "addLevelName" /\ out'.lvl = L /\ out'.name = N) =>
              /\ getLevelName(Num(L))' = Str(N)
              /\ \A M \in RegistryNames :
                    (M # N /\ getLevelName(Str(M)) = Num(L))
                        => getLevelName(Str(M))' = Num(L)
              /\ \A J \in RegistryLevels :
                    (J # L /\ getLevelName(Num(J)) = Str(N))
                        => getLevelName(Num(J))' = Str(N)]_vars

\* After addLevelName(40, "FOOBAR"): 40 is named "FOOBAR" and "ERROR" still
\* resolves to 40.
C14_Witness ==
    /\ out.op = "addLevelName"
    /\ out.lvl = ERROR
    /\ out.name = "FOOBAR"
    /\ getLevelName(Num(ERROR)) = Str("FOOBAR")
    /\ getLevelName(Str("ERROR")) = Num(ERROR)

\* C15: getLevelName never fails; an unregistered number L gives "Level L",
\* a string that is no registered name gives "Level " + the string, and in
\* the initial state "FATAL" and "WARN" are such strings.
C15_UnknownGivesLevelString ==
    /\ out.op = "getLevelName" =>
          /\ out.thrown = "none"
          /\ (out.arg.t = "number" /\ PropertyKey(out.arg) \notin DOMAIN LEVELTONAME)
                => out.ret = Str("Level " \o ToString(out.arg.n))
          /\ (out.arg.t = "string" /\ out.arg.s \notin DOMAIN NAMETOLEVEL)
                => out.ret = Str("Level " \o out.arg.s)
    /\ InitialRegistry =>
          /\ getLevelName(Str("FATAL")) = Str("Level FATAL")
          /\ getLevelName(Str("WARN")) = Str("Level WARN")

\* C16: checkLevel returns a number unchanged and the registered number of a
\* string that is a key of the name-to-number map, and throws for any other
\* string and for a value that is neither; a setLevel or disable assignment
\* whose checkLevel throws leaves the registry and the level being set as
\* they were, and one whose checkLevel returns stores the number returned.
C16_CheckLevel ==
    [][/\ out'.op = "checkLevel" =>
             /\ out'.arg.t = "number" => (out'.thrown = "none" /\ out'.ret = out'.arg.n)
             /\ (out'.arg.t = "string" /\ out'.arg.s \in DOMAIN NAMETOLEVEL)
                   => (out'.thrown = "none" /\ out'.ret = NAMETOLEVEL[out'.arg.s])
             /\ (out'.arg.t = "string" /\ out'.arg.s \notin DOMAIN NAMETOLEVEL)
                   => out'.thrown # "none"
             /\ out'.arg.t \notin {"number", "string"} => out'.thrown # "none"
             /\ UNCHANGED <<logger, disable, LEVELTONAME, NAMETOLEVEL>>
       /\ (out'.op \in {"setLevel", "disable="} /\ out'.thrown # "none")
             => UNCHANGED <<logger, disable, LEVELTONAME, NAMETOLEVEL>>
       /\ (out'.op = "setLevel" /\ out'.thrown = "none")
             => (logger'[out'.lg].level = out'.lvl /\ UNCHANGED <<LEVELTONAME, NAMETOLEVEL>>)
       /\ (out'.op = "disable=" /\ out'.thrown = "none")
             => (disable' = out'.lvl /\ UNCHANGED <<LEVELTONAME, NAMETOLEVEL>>)]_vars

\* A setLevel with an unknown name threw and the root kept the level 5 it
\* had been given before.
C16_Witness ==
    /\ out.op = "setLevel"
    /\ out.thrown = "Unknown level"
    /\ logger[ROOT].level = 5

\* C17: once emittedNoHandlerWarning is true it stays true and no dispatch
\* emits the "no handlers could be found" diagnostic.
C17_DiagnosticAtMostOnce ==
    [][emittedNoHandlerWarning =>
          /\ emittedNoHandlerWarning'
          /\ ~(out'.op = "callHandlers" /\ out'.diag)]_vars

\* A dispatch of a DEBUG record from a logger of a Manager, with no handler
\* on the walk and the diagnostic already emitted, emitted nothing.
C17_Witness ==
    /\ out.op = "callHandlers"
    /\ out.lvl = DEBUG
    /\ logger[out.lg].manager
    /\ NoneFound(out.lg)
    /\ lastResort # NullHandler
    /\ emittedNoHandlerWarning
    /\ ~out.diag

C19_LastResortOnlyWhenNoneInvoked ==
    out.op = "callHandlers" =>
        /\ (out.invoked # << >> => out.lastResort = 0)
        /\ out.lastResort <= 1

\* A WARNING record was handled by an attached handler, and not by
\* lastResort, whose threshold it meets.
C19_Witness ==
    /\ out.op = "callHandlers"
    /\ out.lvl = WARNING
    /\ out.thrown = "none"
    /\ out.invoked = << "D1" >>
    /\ lastResort # NullHandler
    /\ out.lastResort = 0

\* The handlers of array hs whose threshold a record of level levelno meets,
\* in array order, which is the order addHandler attached them in.
RECURSIVE EligibleInOrder(_, _)
EligibleInOrder(hs, levelno) ==
    IF hs = << >> THEN << >>
    ELSE (IF Head(hs) # Hole /\ levelno >= hdlr[Head(hs)].level THEN << Head(hs) >> ELSE << >>)
             \o EligibleInOrder(Tail(hs), levelno)

\* The eligible handlers in walk order from node c: those of c, then those
\* of its parent, and so on up to the node that ends the walk.
RECURSIVE WalkOrder(_, _)
WalkOrder(c, levelno) ==
    IF c = Null THEN << >>
    ELSE EligibleInOrder(logger[c].handlers, levelno)
             \o (IF ~logger[c].propagate THEN << >> ELSE WalkOrder(logger[c].parent, levelno))

NothingDispatched == out.invoked = << >> /\ out.lastResort = 0 /\ ~out.diag

\* C21: a logging call on a logger that is not enabled for the level, and
\* the handling of a record by a logger that is disabled or whose filter
\* chain rejects the record, invoke no handler, not lastResort either, and
\* emit no diagnostic.
C21_NoDispatchWhenRejected ==
    /\ (out.op = "debug" /\ out.ret = FALSE) => NothingDispatched
    /\ (/\ out.op = "Logger.handle"
        /\ \/ logger[out.lg].disabled
           \/ FiltererFilter(logger[out.lg].filters, out.record).ret.isNull)
       => (NothingDispatched /\ out.thrown = "none")

\* A logger with the handler D1 and a filter chain that rejects the record
\* handled a WARNING record: nothing was invoked.
C21_Witness ==
    /\ out.op = "Logger.handle"
    /\ out.lvl = WARNING
    /\ ~logger[out.lg].disabled
    /\ logger[out.lg].handlers = << "D1" >>
    /\ logger[out.lg].filters # << >>
    /\ FiltererFilter(logger[out.lg].filters, out.record).ret.isNull
    /\ NothingDispatched

\* C22: isEnabledFor is monotonic in the level queried: of two queries made
\* one after the other on one logger, with no level, threshold or flag
\* changed in between, the one for the higher level is true if the one for
\* the lower level is.
C22_IsEnabledForMonotonic ==
    [][(/\ out.op = "isEnabledFor"
        /\ out'.op = "isEnabledFor"
        /\ out'.lg = out.lg)
       => /\ (out.ret = TRUE /\ out'.lvl > out.lvl) => out'.ret = TRUE
          /\ (out'.ret = TRUE /\ out.lvl > out'.lvl) => out.ret = TRUE]_vars

\* C23: isEnabledFor on a disabled logger returns false for every level,
\* whatever the levels, the disable threshold and the cache.
C23_DisabledNeverEnabled ==
    (out.op = "isEnabledFor" /\ logger[out.lg].disabled) => out.ret = FALSE

\* A disabled logger of a Manager, at NOTSET with the threshold at 0, was
\* asked for a level above CRITICAL and answered false.
C23_Witness ==
    /\ out.op = "isEnabledFor"
    /\ logger[out.lg].disabled
    /\ logger[out.lg].manager
    /\ logger[out.lg].level = NOTSET
    /\ disable = 0
    /\ out.lvl > CRITICAL
    /\ out.ret = FALSE

\* C24: an isEnabledFor(q) that follows an assignment to Manager.disable, on
\* a logger of that Manager and for a q whose result was cached before the
\* assignment, returns the value the new threshold determines.
C24_CacheInvalidatedOnDisable ==
    [][(/\ out.op = "disable="
        /\ out.thrown = "none"
        /\ out'.op = "isEnabledFor"
        /\ logger[out'.lg].manager
        /\ out'.lvl \in DOMAIN logger[out'.lg].cache)
       => (out'.ret = ClaimedEnabled(out'.lg, out'.lvl))]_vars

\* The nodes self, parent, parent.parent, ... from node c, in that order.
RECURSIVE ChainSeq(_)
ChainSeq(c) == IF c = Null THEN << >> ELSE << c >> \o ChainSeq(logger[c].parent)

\* The explicit level of the first node of a chain whose level is non-zero,
\* NOTSET when there is none.
FirstExplicitLevel(ch) ==
    LET nz == {i \in 1..Len(ch) : logger[ch[i]].level # 0} IN
    IF nz = {} THEN NOTSET
    ELSE logger[ch[CHOOSE i \in nz : \A j \in nz : i <= j]].level

\* C25: getEffectiveLevel returns the explicit level of the first node of
\* self, parent, parent.parent, ... whose level is non-zero, and NOTSET when
\* there is none, and then every level queried is at or above it.
C25_FirstExplicitLevel ==
    out.op = "getEffectiveLevel" =>
        /\ out.ret = FirstExplicitLevel(ChainSeq(out.lg))
        /\ (\A i \in 1..Len(ChainSeq(out.lg)) : logger[ChainSeq(out.lg)[i]].level = 0)
              => (out.ret = NOTSET /\ \A q \in QueryLevels : q >= out.ret)

\* The effective level of a logger at NOTSET whose parent is at NOTSET and
\* whose grandparent, the root, was set to DEBUG, is DEBUG.
C25_Witness ==
    /\ out.op = "getEffectiveLevel"
    /\ Len(ChainSeq(out.lg)) = 3
    /\ logger[out.lg].level = NOTSET
    /\ logger[logger[out.lg].parent].level = NOTSET
    /\ logger[ROOT].level = DEBUG
    /\ ChainSeq(out.lg)[3] = ROOT
    /\ out.ret = DEBUG

\* The record the i-th filter of fs is to be given when the chain is given r
\* and the filters before it all pass: the LogRecord the nearest earlier
\* filter returned, r when none returned one.  i = Len(fs) + 1 gives the
\* record the chain returns.
RECURSIVE RecordAt(_, _, _)
RecordAt(fs, r, i) ==
    IF i = 1 THEN r
    ELSE LET prev == RecordAt(fs, r, i - 1)
             res == FilterResult(fs[i - 1], prev) IN
         IF res.isRecord THEN res.record ELSE prev

\* C26: Filterer.filter calls the filters in insertion order, functions and
\* objects with a filter method alike, each with the record as replaced by
\* the LogRecords earlier filters returned; it returns null at the first
\* filter that returns a falsy value and calls none after it; otherwise it
\* returns the possibly replaced record.
C26_FilterChain ==
    out.op = "Filterer.filter" =>
        LET fs == logger[out.lg].filters
            n == Len(out.called)
            falsy == {i \in 1..Len(fs) : ~FilterResult(fs[i], RecordAt(fs, out.record, i)).truthy}
        IN /\ n <= Len(fs)
           /\ \A i \in 1..n :
                 /\ out.called[i].f = fs[i]
                 /\ out.called[i].record = RecordAt(fs, out.record, i)
           /\ IF falsy = {}
              THEN n = Len(fs) /\ out.ret = RecordAt(fs, out.record, Len(fs) + 1)
              ELSE (\A j \in falsy : n <= j) /\ n \in falsy /\ out.ret = NullRecord

\* The chain fnRecord, F_a was given a record of scope "x": F_a got the
\* record fnRecord returned, passed it, and the chain returned it.
C26_Witness ==
    /\ out.op = "Filterer.filter"
    /\ logger[out.lg].filters = << "fnRecord", "F_a" >>
    /\ out.record.scope = << "x" >>
    /\ Len(out.called) = 2
    /\ out.called[2].record = LogRecord(S_a, CRITICAL)
    /\ out.ret = LogRecord(S_a, CRITICAL)

\* C27: a filter list holds no filter twice; addFilter of a present filter
\* and removeFilter of an absent one change nothing; addFilter of an absent
\* filter puts it last; removeFilter of a present filter removes exactly it
\* and keeps the order of the others.
C27_FilterListIsOrderedSet ==
    [][/\ \A l \in 1..Len(logger') : \A i, j \in 1..Len(logger'[l].filters) :
             logger'[l].filters[i] = logger'[l].filters[j] => i = j
       /\ \A f \in Filters :
             /\ (out'.op = "addFilter" /\ out'.name = f) =>
                   logger'[out'.lg].filters =
                       IF f \in Range(logger[out'.lg].filters) THEN logger[out'.lg].filters
                       ELSE Append(logger[out'.lg].filters, f)
             /\ (out'.op = "removeFilter" /\ out'.name = f) =>
                   logger'[out'.lg].filters =
                       SelectSeq(logger[out'.lg].filters, LAMBDA g : g # f)]_vars

\* removeFilter took the first of two filters out of a list and left the
\* other.
C27_Witness ==
    /\ out.op = "removeFilter"
    /\ out.name = "F_a"
    /\ logger[out.lg].filters = << "fnFalse" >>

\* C28: a handler list is a duplicate-free sequence of handlers without an
\* empty slot; addHandler of an absent handler puts it last and of a present
\* one changes nothing; removeHandler(h) leaves the list without h, the
\* others in their order; and no dispatch fails on the list.
C28_HandlerListIsOrderedSet ==
    [][/\ \A l \in 1..Len(logger') : \A i, j \in 1..Len(logger'[l].handlers) :
             /\ logger'[l].handlers[i] \in Attachable
             /\ logger'[l].handlers[i] = logger'[l].handlers[j] => i = j
       /\ \A h \in Attachable :
             /\ (out'.op = "addHandler" /\ out'.name = h) =>
                   logger'[out'.lg].handlers =
                       IF h \in Range(logger[out'.lg].handlers) THEN logger[out'.lg].handlers
                       ELSE Append(logger[out'.lg].handlers, h)
             /\ (out'.op = "removeHandler" /\ out'.name = h) =>
                   logger'[out'.lg].handlers =
                       SelectSeq(logger[out'.lg].handlers, LAMBDA g : g # h)
       /\ out'.op = "callHandlers" => out'.thrown # "TypeError"]_vars

\* C29: an error thrown by the emit of a handler a dispatch invoked does not
\* reach the caller: the call returns normally.
C29_EmitErrorSuppressed ==
    (/\ out.op \in {"callHandlers", "Logger.handle", "debug"}
     /\ \E i \in DOMAIN out.invoked : hdlr[out.invoked[i]].emit # "ok")
    => out.thrown = "none"

\* C30: makeRecord throws a KeyError exactly when a key of extra is
\* "message", "asctime" or a property the record already has, and then the
\* record is as the factory made it; otherwise it does not throw and the
\* record has every key of extra.
C30_MakeRecordExtra ==
    out.op = "makeRecord" =>
        LET keys == IF out.extra.isNull THEN {} ELSE Range(out.extra.keys)
            collide == keys \cap ({"message", "asctime"} \cup RecordAttributes) # {}
        IN IF collide
           THEN out.thrown = "KeyError" /\ out.ret = RecordAttributes
           ELSE out.thrown = "none" /\ out.ret = RecordAttributes \cup keys

\* ------------------------------------------------------------------ C31

\* The classes the loggerClass setter is said to accept.
LoggerOrDerived == {"Logger", LoggerSubclass}

\* C31: assigning Manager.loggerClass succeeds only for Logger itself or a
\* class derived from Logger; for any other class it throws a TypeError and
\* the class configured before stays in effect: the logger a later
\* getLogger creates is an instance of it (of Logger while none was set).
C31_LoggerClassSetter ==
    [][/\ (out'.op = "loggerClass=" /\ out'.name \in LoggerOrDerived)
            => (out'.thrown = "none" /\ _loggerClass' = out'.name)
       /\ (out'.op = "loggerClass=" /\ out'.name \notin LoggerOrDerived)
            => (out'.thrown = "TypeError" /\ _loggerClass' = _loggerClass)
       /\ (out'.op = "getLogger" /\ Len(logger') > Len(logger))
            => /\ logger'[Len(logger')].class \in LoggerOrDerived
               /\ logger'[Len(logger')].class =
                      IF _loggerClass = NullClass THEN "Logger" ELSE _loggerClass]_vars

\* A logger created as an instance of the subclass configured earlier, after
\* a rejected assignment in between would have been possible.
C31_Witness ==
    /\ out.op = "loggerClass="
    /\ out.thrown = "TypeError"
    /\ _loggerClass = LoggerSubclass
    /\ \E l \in 1..Len(logger) : logger[l].class = LoggerSubclass

\* ------------------------------------------------------------------ C32

\* Whether a step changes the root logger's level other than by a setLevel
\* on the root that succeeded, or gives the root a parent or a registry key.
RootStep ==
    /\ logger'[ROOT].parent = Null
    /\ ROOT \notin {loggers'[k] : k \in DOMAIN loggers'}
    /\ (logger'[ROOT].level # logger[ROOT].level)
         => (out'.op = "setLevel" /\ out'.lg = ROOT /\ out'.thrown = "none")

\* C32 as claimed: in every reachable state the root logger's scope is the
\* empty path, its parent is null after any sequence of getLogger, setLevel
\* and addHandler calls, and its level is WARNING until explicitly changed.
C32_RootScopeEmpty ==
    /\ logger[ROOT].level = WARNING
    /\ [][logger'[ROOT].scope = S_empty /\ RootStep]_vars

\* C32, amended: the same with the root logger's scope being 'root'.
C32_RootScopeIsRoot ==
    /\ logger[ROOT].level = WARNING
    /\ [][logger'[ROOT].scope = <<"r", "o", "o", "t">> /\ RootStep]_vars

\* The root after a logger was created, a handler was attached to the root
\* and the root's level was set to another value.
C32_Witness ==
    /\ Len(logger) > 1
    /\ logger[ROOT].handlers # << >>
    /\ out.op = "setLevel" /\ out.lg = ROOT /\ out.thrown = "none"
    /\ logger[ROOT].level = NOTSET
    /\ logger[ROOT].parent = Null

\* ------------------------------------------------------------------ C33

\* C33: Handler.handle(record) applies the handler's own filter chain; when
\* no filter of the chain returns a falsy value it calls emit exactly once,
\* with the record as replaced by the LogRecords the filters returned; when
\* a filter rejects the record it does not call emit at all.
C33_HandlerHandle ==
    out.op = "Handler.handle" =>
        LET fs == out.filters
            falsy == {i \in 1..Len(fs) : ~FilterResult(fs[i], RecordAt(fs, out.record, i)).truthy}
        IN IF falsy = {}
           THEN out.emitted = << RecordAt(fs, out.record, Len(fs) + 1) >>
           ELSE out.emitted = << >> /\ out.thrown = "none"

\* A handler filtered by fnRecord, F_a was given a record of scope "x" and
\* emitted the record fnRecord returned, once.
C33_Witness ==
    /\ out.op = "Handler.handle"
    /\ out.filters = << "fnRecord", "F_a" >>
    /\ out.record.scope = << "x" >>
    /\ out.emitted = << LogRecord(S_a, CRITICAL) >>

\* A handler whose filter F_a rejected a record of scope "x" emitted nothing.
C33_WitnessRejected ==
    /\ out.op = "Handler.handle"
    /\ out.filters = << "F_a" >>
    /\ out.record.scope = << "x" >>
    /\ out.emitted = << >>

\* ------------------------------------------------------------------ C34

\* The combinations of options the claims call mutually exclusive.
Conflicting(o) ==
    \/ o.filename /\ o.stream
    \/ (o.filename \/ o.stream) /\ o.handlers # << >>

\* C34: basicConfig fails with the configuration error (the ValueError
\* "... should not be specified together ...") exactly when filename is
\* combined with stream, or filename or stream with a non-empty handlers
\* list; it does not raise that error when one or none of the three is given.
C34_ConflictErrorExactly ==
    out.op = "basicConfig" =>
        ((out.thrown = "ValueError" /\ out.name = "should not be specified together")
            <=> Conflicting(out.options))

\* ------------------------------------------------------------------ C35

\* The handler list a non-conflicting call is said to attach.
ClaimedAttached(o) ==
    IF o.handlers # << >> THEN o.handlers
    ELSE IF o.filename THEN << FileHandler >>
    ELSE << StreamHandler >>

\* C35: a non-conflicting basicConfig call (its level, if given, being a
\* valid one) completes without error and leaves on the root every handler
\* of the explicit list, or one new FileHandler when only filename is given,
\* or one new StreamHandler when only stream or none of the three is given;
\* and when level is given the root's level is set to it.
C35_AttachesAndSetsLevel ==
    [][(/\ out'.op = "basicConfig"
        /\ ~Conflicting(out'.options)
        /\ (out'.options.hasLevel => checkLevel(out'.options.level).ok))
       => /\ out'.thrown = "none"
          /\ \A i \in 1..Len(ClaimedAttached(out'.options)) :
                \E j \in 1..Len(logger'[ROOT].handlers) :
                    logger'[ROOT].handlers[j] = ClaimedAttached(out'.options)[i]
          /\ out'.options.hasLevel
               => logger'[ROOT].level = checkLevel(out'.options.level).v]_vars

\* ------------------------------------------------------------------ C36

\* C36: two consecutive calls isEnabledFor(q) on the same logger, with no
\* level, disable threshold or disabled flag changed in between, return the
\* same value: the cached answer equals the freshly computed one.
C36_IsEnabledForStable ==
    [][(/\ out.op = "isEnabledFor"
        /\ out'.op = "isEnabledFor"
        /\ out'.lg = out.lg
        /\ out'.lvl = out.lvl)
       => out'.ret = out.ret]_vars

\* ------------------------------------------------------------------ C37

\* The loggers of the Manager's tree: the root, the loggers the Manager
\* holds, and the loggers constructed with the Manager.
ManagerTree ==
    {l \in 1..Len(logger) : l = ROOT \/ l \in Registered \/ logger[l].manager}

\* C37: after Manager.clear() every logger of the Manager's tree, the root
\* included, has an empty enablement cache.
C37_ClearEmptiesEveryCache ==
    out.op = "Manager.clear" => \A l \in ManagerTree : logger[l].cache = << >>

\* ------------------------------------------------------------------ C38

\* The operations that make up a logging call.
LoggingOps ==
    {"isEnabledFor", "debug", "Filterer.filter", "Logger.handle", "Handler.handle",
     "callHandlers"}

\* C38: a logging call (enablement check, record construction, filtering,
\* dispatch, fallback) changes no logger's level, propagate flag, disabled
\* flag, parent, handler list or filter list, creates no logger, and changes
\* no registry entry, threshold, last-resort binding or logger class; it may
\* change enablement caches and set emittedNoHandlerWarning.
C38_LoggingCallFrame ==
    [][out'.op \in LoggingOps
       => /\ Len(logger') = Len(logger)
          /\ \A l \in 1..Len(logger) :
                [logger'[l] EXCEPT !.cache = << >>] = [logger[l] EXCEPT !.cache = << >>]
          /\ UNCHANGED <<loggers, disable, LEVELTONAME, NAMETOLEVEL, lastResort, _loggerClass>>
          /\ emittedNoHandlerWarning => emittedNoHandlerWarning']_vars

\* A dispatch that emitted the one-shot diagnostic and set the flag, on a
\* tree where an earlier debug call had filled a cache.
C38_Witness ==
    /\ out.op = "callHandlers"
    /\ out.diag
    /\ emittedNoHandlerWarning
    /\ \E l \in 1..Len(logger) : logger[l].cache # << >> /\ logger[l].handlers # << >>

\* ------------------------------------------------------------------ C39

\* C39: the assignment handler.level = x terminates: for a number or a
\* registered name x it completes and the handler's level then reads back
\* as checkLevel(x); for an invalid x it raises the checkLevel error and
\* the threshold is unchanged.
C39_HandlerLevelSetter ==
    out.op = "Handler.level=" =>
        LET cl == checkLevel(out.arg) IN
        IF cl.ok THEN out.thrown = "none" /\ out.ret = cl.v
        ELSE out.thrown = cl.err /\ out.ret = hdlr[out.name].level

\* ------------------------------------------------------------------ C40

\* Whether following parent references from c reaches null within n steps.
RECURSIVE ReachesNull(_, _)
ReachesNull(c, n) ==
    IF c = Null THEN TRUE
    ELSE IF n = 0 THEN FALSE
    ELSE ReachesNull(logger[c].parent, n - 1)

\* C40: in every reachable tree the parent chain of each logger is finite
\* and acyclic and ends at a logger whose parent is null, within as many
\* steps as there are loggers, so the walks of getEffectiveLevel and
\* callHandlers end, whatever the levels (the root at NOTSET included);
\* getEffectiveLevel then returns a level and throws nothing.
C40_WalksTerminate ==
    /\ \A l \in 1..Len(logger) :
          /\ logger[l].parent \in (0..Len(logger)) \ {l}
          /\ ReachesNull(l, Len(logger))
    /\ out.op = "getEffectiveLevel"
         => (out.thrown = "none" /\ out.ret = getEffectiveLevel(out.lg))

\* getEffectiveLevel returned NOTSET on a logger at NOTSET while the root
\* was at NOTSET too.
C40_Witness ==
    /\ out.op = "getEffectiveLevel"
    /\ out.lg # ROOT
    /\ logger[out.lg].level = NOTSET
    /\ logger[ROOT].level = NOTSET
    /\ out.ret = NOTSET
====
